---- MODULE Spec2Model ----
(***************************************************************************)
(* The asynchronous job tracker of the Smart README Generator:             *)
(*   - READMEGenerator (React component): handleGenerate / pollStatus      *)
(*   - SmartREADMEGeneratorService: generateREADME, checkStatus,           *)
(*     waitForCompletion, generateAndWait                                  *)
(*   - ReadmeGeneratorAdvanced.handleSubmit                                *)
(*   - the Next.js routes POST /generate and GET /status/[executionArn]    *)
(* Strings are sequences of one-character strings; a message built by      *)
(* concatenation is the concatenation of its parts.  One behaviour follows *)
(* one session of one entry point (component).                             *)
(***************************************************************************)
EXTENDS Integers, Sequences, FiniteSets, TLC

VARIABLES
    component,        \* the entry point this behaviour drives
    githubUrl,        \* the text typed / passed as repository.github_url
    post,             \* the POST /generate exchange of the session
    execution,        \* the Step Functions execution (remote state)
    \* READMEGenerator state (useState) and handleGenerate's closure
    isGenerating, progress, result, error,
    attempts, executionArn,
    rgPc,             \* where handleGenerate stands
    polls,            \* pollStatus invocations awaiting checkStatus
    timers,           \* pending setTimeout(pollStatus, 5000) timers
    onSuccess, onError, \* arguments of the callback invocations so far
    unhandled,        \* errors of promises nobody awaits
    \* generateAndWait / waitForCompletion
    svPc, elapsed, outcome,
    \* ReadmeGeneratorAdvanced.handleSubmit
    advPc, toasts, hookCalls,
    \* history
    posts,            \* POST /generate requests sent by the client
    startExecutions,  \* StartExecutionCommand sends of the generate route
    requests,         \* status requests issued by the poller
    responses,        \* status requests answered (checkStatus settled)
    seen,             \* statuses checkStatus has returned so far
    readFailed,       \* some checkStatus call has thrown
    lastResponse,     \* the last answer of the status endpoint
    lastStatus,       \* what checkStatus made of it
    finishedAfter,    \* value of responses when the execution ended
    raised,           \* every error thrown in the session
    \* a further handleGenerate call on the same component instance
    second,           \* its closure (attempts, executionArn, timers) and exchange
    mounted,          \* the component instance is still rendered
    \* PreviewPageContent: route and search parameters, useState, history
    previewId, source, s3Key, searchParams,
    previewData, loading, previewError,
    runs,             \* fetchPreviewData runs that have not ended
    runsStarted,      \* fetchPreviewData runs started so far
    lastRun,          \* the run that ended last: what it fetched and produced
    \* HistoryItemCard: props, useState, history
    item, showPreview, readmeContent, loadingContent, contentError,
    fetches,          \* fetchReadmeContent requests in flight
    fetchesStarted,   \* fetchReadmeContent requests started so far
    lastFetch         \* outcome of every request that has ended

vars == <<component, githubUrl, post, execution, isGenerating, progress, result,
          error, attempts, executionArn, rgPc, polls, timers, onSuccess, onError,
          unhandled, svPc, elapsed, outcome, advPc, toasts, hookCalls, posts,
          startExecutions, requests, responses, seen, readFailed, lastResponse,
          lastStatus, finishedAfter, raised, second, mounted, previewId, source,
          s3Key, searchParams, previewData, loading, previewError, runs,
          runsStarted, lastRun, item, showPreview, readmeContent, loadingContent,
          contentError, fetches, fetchesStarted, lastFetch>>

rgVars == <<isGenerating, progress, result, error, attempts, executionArn, rgPc,
            polls, timers, onSuccess, onError, unhandled>>
svVars == <<svPc, elapsed, outcome>>
advVars == <<advPc, toasts, hookCalls>>
previewVars == <<previewId, source, s3Key, searchParams, previewData, loading,
                 previewError, runs, runsStarted, lastRun>>
cardVars == <<item, showPreview, readmeContent, loadingContent, contentError,
              fetches, fetchesStarted, lastFetch>>
pageVars == <<previewVars, cardVars>>
pollHistory == <<requests, responses, seen, readFailed, lastResponse, lastStatus>>

----------------------------------------------------------------------------
(* Bounds of the model *)

MaxRestLen == 4     \* characters typed after the scheme-and-host prefix
NumPayloads == 2    \* distinct result payloads the execution may produce
DelayMs == 5000     \* a slow status request, a late timer (0 or DelayMs)

(* Program constants *)

maxAttempts == 24
timeoutMs == 120000
pollIntervalMs == 5000

----------------------------------------------------------------------------
(* Strings *)

GithubPrefix ==
    <<"h","t","t","p","s",":","/","/","g","i","t","h","u","b",".","c","o","m","/">>
HttpPrefix ==
    <<"h","t","t","p",":","/","/","g","i","t","h","u","b",".","c","o","m","/">>

\* the characters of the class [\w\-\.]
WordChars == {"a", "b", "z", "A", "Z", "0", "9", "_", "-", "."}

\* the characters typed after the prefix
Alphabet == {"a", "/", "?", " "}

RECURSIVE SeqsUpTo(_)
SeqsUpTo(n) ==
    IF n = 0 THEN {<<>>}
    ELSE LET shorter == SeqsUpTo(n - 1)
         IN  shorter \cup {Append(s, c) : s \in {t \in shorter : Len(t) = n - 1},
                                          c \in Alphabet}

Prefixes == {GithubPrefix, HttpPrefix, <<" ">> \o GithubPrefix}

Urls == {p \o r : p \in Prefixes, r \in SeqsUpTo(MaxRestLen)} \cup {<<>>}

\* String.prototype.trim
RECURSIVE TrimLeft(_)
TrimLeft(s) == IF s # <<>> /\ Head(s) = " " THEN TrimLeft(Tail(s)) ELSE s
RECURSIVE TrimRight(_)
TrimRight(s) ==
    IF s # <<>> /\ s[Len(s)] = " " THEN TrimRight(SubSeq(s, 1, Len(s) - 1)) ELSE s
Trim(s) == TrimRight(TrimLeft(s))

----------------------------------------------------------------------------
(* Values *)

\* an absent / undefined / null value of a JSON field
Undefined == [kind |-> "undefined"]
Null == [kind |-> "null"]
NaN == [kind |-> "NaN"]

\* a number, a string and an array as values a field may hold
Num(n) == [kind |-> "number", num |-> n]
Str(s) == [kind |-> "string", str |-> s]
Arr(a) == [kind |-> "array", items |-> a]

\* the values JavaScript treats as false in a || b
Falsy(x) == x \in {Undefined, Null, NaN, Num(0), Str(<<>>)}

\* a || b
Or(a, b) == IF Falsy(a) THEN b ELSE a

NoSearchParams ==
    [name |-> Null, owner |-> Null, type |-> Null, lang |-> Null, repo |-> Null,
     frameworks |-> Null, confidence |-> Null, time |-> Null]
NoRun == [n |-> 0]
NoItem == [status |-> <<>>]

\* CompleteResult objects
ReadmeLocation == [kind |-> "s3_location", key |-> <<"readmes/repo.md">>]
Payloads ==
    {[kind |-> "CompleteResult", id |-> i, s3_location |-> ReadmeLocation] :
        i \in 1..NumPayloads}
FirstPayload == [kind |-> "CompleteResult", id |-> 1, s3_location |-> ReadmeLocation]
SecondPayload ==
    [kind |-> "CompleteResult", id |-> NumPayloads, s3_location |-> ReadmeLocation]

\* a result whose readme_generation has no s3_location
PayloadWithoutLocation ==
    [kind |-> "CompleteResult", id |-> 1, s3_location |-> Undefined]

\* JSON.stringify(payload): the text Step Functions stores as the output
JSONstringify(p) == [kind |-> "text", value |-> p]

Statuses == {"RUNNING", "SUCCEEDED", "FAILED", "TIMED_OUT", "ABORTED"}
TerminalStatuses == Statuses \ {"RUNNING"}

\* a status DescribeExecution can report that is outside the documented set
UnknownStatuses == {"PENDING_REDRIVE"}

\* remote error strings; <<>> is the empty / missing one
RemoteErrors == {<<>>, <<"boom">>, <<"oops">>}

NoExecution == [status |-> "NONE", output |-> Undefined, error |-> <<>>]

\* what a running execution may end as
Endings ==
    {[status |-> "SUCCEEDED", output |-> o, error |-> <<>>] :
        o \in {Undefined} \cup
              {JSONstringify(p) : p \in Payloads \cup {PayloadWithoutLocation}}}
    \cup
    {[status |-> s, output |-> Undefined, error |-> e] :
        s \in {"FAILED", "TIMED_OUT", "ABORTED"}, e \in RemoteErrors}
    \cup
    {[status |-> s, output |-> Undefined, error |-> <<>>] : s \in UnknownStatuses}

TheArn == <<"arn:execution">>

\* messages
InvalidUrlMsg == <<"Please enter a valid GitHub repository URL">>
FetchFailedMsg == <<"Failed to fetch">>
SyntaxErrorMsg == <<"Unexpected token o in JSON at position 1">>
GenerationTimeoutMsg == <<"Generation timeout - please try again">>
PipelineFailedDefault == <<"Pipeline execution failed">>
PipelineTimedOutMsg == <<"Pipeline execution timed out">>
PollingTimeoutMsg == <<"Polling timeout reached">>

\* progress labels
StartingLabel == <<"Starting Phase 3 Ultimate AI Platform...">>
AnalysisLabel == <<"Phase 3 Analysis in progress...">>
CompletedLabel == <<"README generation completed!">>
StageA == <<"Phase 3 AI analyzing repository...">>
StageB == <<"Detecting frameworks and patterns...">>
StageC == <<"Generating professional README...">>
StageD == <<"Finalizing documentation...">>

----------------------------------------------------------------------------
(* The URL pattern /^https:\/\/github\.com\/[\w\-\.]+\/[\w\-\.]+\/?$/ *)

\* [\w\-\.]+\/[\w\-\.]+ matched against the whole of s
OwnerSlashRepo(s) ==
    \E i \in 2..(Len(s) - 1) :
        /\ s[i] = "/"
        /\ \A j \in (1..Len(s)) \ {i} : s[j] \in WordChars

\* a pattern whose segments are [^/]+ instead of [\w\-\.]+
githubRegexTest_AnySegment(url) ==
    /\ Len(url) > Len(GithubPrefix)
    /\ SubSeq(url, 1, Len(GithubPrefix)) = GithubPrefix
    /\ LET rest == SubSeq(url, Len(GithubPrefix) + 1, Len(url))
           slashes == {i \in 1..Len(rest) : rest[i] = "/"}
       IN  \E i \in 2..(Len(rest) - 1) :
               \/ slashes = {i}
               \/ slashes = {i, Len(rest)} /\ i < Len(rest) - 1

githubRegexTest(url) ==
    /\ Len(url) > Len(GithubPrefix)
    /\ SubSeq(url, 1, Len(GithubPrefix)) = GithubPrefix
    /\ LET rest == SubSeq(url, Len(GithubPrefix) + 1, Len(url))
           last == rest[Len(rest)]
       IN  \/ OwnerSlashRepo(rest)
           \/ last = "/" /\ OwnerSlashRepo(SubSeq(rest, 1, Len(rest) - 1))

validateGitHubUrl(url) == githubRegexTest(url)

----------------------------------------------------------------------------
(* HTTP exchanges *)

NoBody == [success |-> FALSE, execution_arn |-> <<>>, message |-> <<>>, error |-> <<>>]
NoPost == [phase |-> "none", ok |-> FALSE, status |-> <<>>, body |-> NoBody]

\* fetch(`${API_BASE_URL}/generate`, {method: 'POST', body: JSON.stringify(repository)})
SentPost == [phase |-> "sent", ok |-> FALSE, status |-> <<>>, body |-> NoBody]

Answer(ok, status, body) ==
    [phase |-> "answered", ok |-> ok, status |-> status, body |-> body]

\* a route that sends the command again when the send throws
StartExecutionSends_Retry(github_url, sfn) ==
    IF github_url # <<>> /\ githubRegexTest(github_url)
    THEN (IF sfn = "throws" THEN 2 ELSE 1)
    ELSE 0

\* a route that sends the command before it tests the pattern
StartExecutionSends_BeforeValidation(github_url, sfn) ==
    IF github_url # <<>> THEN 1 ELSE 0

\* how many StartExecutionCommands the generate route sends for this github_url
StartExecutionSends(github_url, sfn) ==
    IF github_url # <<>> /\ githubRegexTest(github_url) THEN 1 ELSE 0

\* a generate route whose catch block answers like the success path
POSTresponse_SwallowsError(github_url, sfn) ==
    IF github_url = <<>>
    THEN Answer(FALSE, <<"400">>, [NoBody EXCEPT !.error = <<"GitHub URL is required">>])
    ELSE IF ~githubRegexTest(github_url)
    THEN Answer(FALSE, <<"400">>, [NoBody EXCEPT !.error = <<"Invalid GitHub URL format">>])
    ELSE Answer(TRUE, <<"200">>,
                [NoBody EXCEPT !.success = TRUE, !.execution_arn = TheArn,
                               !.message = <<"README generation started">>])

\* POST of app/api/readme/generate/route.ts; sfn is what sfnClient.send does
POSTresponse(github_url, sfn) ==
    IF github_url = <<>>
    THEN Answer(FALSE, <<"400">>, [NoBody EXCEPT !.error = <<"GitHub URL is required">>])
    ELSE IF ~githubRegexTest(github_url)
    THEN Answer(FALSE, <<"400">>, [NoBody EXCEPT !.error = <<"Invalid GitHub URL format">>])
    ELSE IF sfn = "throws"
    THEN Answer(FALSE, <<"500">>, [NoBody EXCEPT !.error = <<"Internal server error">>])
    ELSE Answer(TRUE, <<"200">>,
                [NoBody EXCEPT !.success = TRUE, !.execution_arn = TheArn,
                               !.message = <<"README generation started">>])

\* the deployed endpoint's documented answer: no success field
ExpectedResponse(github_url) ==
    IF githubRegexTest(github_url)
    THEN Answer(TRUE, <<"202">>,
                [NoBody EXCEPT !.execution_arn = TheArn,
                               !.message = <<"README generation started successfully">>])
    ELSE Answer(FALSE, <<"400">>, [NoBody EXCEPT !.error = <<"Invalid GitHub URL format">>])

Return(v) == [kind |-> "return", value |-> v]
Throw(m) == [kind |-> "throw", message |-> m]
NoOutcome == [kind |-> "none"]

\* generateREADME without the response.ok check
generateREADME_NoOkCheck(net, resp) ==
    IF net = "error" THEN Throw(FetchFailedMsg) ELSE Return(resp.body)

\* generateREADME after its fetch settles; net = "error" when fetch rejects
generateREADME(net, resp) ==
    IF net = "error" THEN Throw(FetchFailedMsg)
    ELSE IF ~resp.ok THEN Throw(<<"API request failed: ">> \o resp.status)
    ELSE Return(resp.body)

\* JSON.parse(x): x is coerced to a string first, an object to "[object Object]"
JSONparse(x) ==
    IF x.kind = "text" THEN Return(x.value) ELSE Throw(SyntaxErrorMsg)

\* DescribeExecutionCommand
DescribeExecution(exec) ==
    [status |-> exec.status, output |-> exec.output, error |-> exec.error]

StatusAnswer(ok, code, status, output, err) ==
    [ok |-> ok, code |-> code, status |-> status, output |-> output, error |-> err]

\* no answer: the request is pending or was lost
NoStatusAnswer == StatusAnswer(FALSE, <<>>, "NONE", Undefined, <<>>)

\* a status route that reports RUNNING when it cannot describe the execution
GETresponse_RunningOnError(exec, sfn) ==
    IF sfn = "throws"
    THEN StatusAnswer(TRUE, <<"200">>, "RUNNING", Undefined, <<>>)
    ELSE LET r == DescribeExecution(exec)
             parsed == IF r.output # Undefined THEN JSONparse(r.output) ELSE Return(Undefined)
         IN  IF parsed.kind = "throw"
             THEN StatusAnswer(FALSE, <<"500">>, "NONE", Undefined, <<"Failed to check status">>)
             ELSE StatusAnswer(TRUE, <<"200">>, r.status, parsed.value, r.error)

\* GET of app/api/readme/status/[executionArn]/route.ts
GETresponse(exec, sfn) ==
    IF sfn = "throws"
    THEN StatusAnswer(FALSE, <<"500">>, "NONE", Undefined, <<"Failed to check status">>)
    ELSE LET r == DescribeExecution(exec)
             parsed == IF r.output # Undefined THEN JSONparse(r.output) ELSE Return(Undefined)
         IN  IF parsed.kind = "throw"
             THEN StatusAnswer(FALSE, <<"500">>, "NONE", Undefined, <<"Failed to check status">>)
             ELSE StatusAnswer(TRUE, <<"200">>, r.status, parsed.value, r.error)

\* the status endpoint that passes the execution's output text on as it is
DirectResponse(exec, sfn) ==
    IF sfn = "throws"
    THEN StatusAnswer(FALSE, <<"500">>, "NONE", Undefined, <<"Internal server error">>)
    ELSE LET r == DescribeExecution(exec)
         IN  StatusAnswer(TRUE, <<"200">>, r.status, r.output, r.error)

StatusWire(via, exec, sfn) ==
    IF via = "route" THEN GETresponse(exec, sfn) ELSE DirectResponse(exec, sfn)

ExecutionStatus(status, output, err) ==
    [kind |-> "return", status |-> status, output |-> output, error |-> err]

\* checkStatus after its fetch settles
checkStatus(net, resp) ==
    IF net = "error" THEN Throw(FetchFailedMsg)
    ELSE IF ~resp.ok THEN Throw(<<"Status check failed: ">> \o resp.code)
    ELSE LET parsed == IF resp.output # Undefined
                       THEN JSONparse(resp.output) ELSE Return(Undefined)
         IN  IF parsed.kind = "throw" THEN Throw(parsed.message)
             ELSE ExecutionStatus(resp.status, parsed.value, resp.error)

----------------------------------------------------------------------------
(* READMEGenerator.pollStatus *)

\* a budget one attempt short
pollStatusMayRequest_OneShort(att) == att < maxAttempts - 1

\* a budget one attempt long (attempts > maxAttempts)
pollStatusMayRequest_OneLong(att) == att <= maxAttempts

\* the negation of `attempts >= maxAttempts`
pollStatusMayRequest(att) == att < maxAttempts

\* stage boundaries compared with <= instead of <
stageLabel_Inclusive(att) ==
    IF att <= 3 THEN StageA
    ELSE IF att <= 6 THEN StageB
    ELSE IF att <= 9 THEN StageC
    ELSE StageD

\* the staged progress label of a RUNNING response
stageLabel(att) ==
    IF att < 3 THEN StageA
    ELSE IF att < 6 THEN StageB
    ELSE IF att < 9 THEN StageC
    ELSE StageD

Continue(label, payload, n) ==
    [kind |-> "return", progress |-> label, result |-> payload, timers |-> n]

\* pollStatus whose RUNNING branch lacks its return: both setTimeout calls run
pollStatusResume_NoReturn(status, att) ==
    IF status.kind = "throw" THEN Throw(status.message)
    ELSE IF status.status = "SUCCEEDED" /\ status.output # Undefined
    THEN Continue(<<CompletedLabel>>, <<status.output>>, 0)
    ELSE IF status.status = "FAILED"
    THEN Throw(IF status.error # <<>> THEN status.error ELSE PipelineFailedDefault)
    ELSE IF status.status = "RUNNING"
    THEN Continue(<<stageLabel(att)>>, <<>>, 2)
    ELSE Continue(<<>>, <<>>, 1)

\* pollStatus that neither polls on nor throws for a status it does not know
pollStatusResume_DropsUnknown(status, att) ==
    IF status.kind = "throw" THEN Throw(status.message)
    ELSE IF status.status = "SUCCEEDED" /\ status.output # Undefined
    THEN Continue(<<CompletedLabel>>, <<status.output>>, 0)
    ELSE IF status.status = "FAILED"
    THEN Throw(IF status.error # <<>> THEN status.error ELSE PipelineFailedDefault)
    ELSE IF status.status = "RUNNING"
    THEN Continue(<<stageLabel(att)>>, <<>>, 1)
    ELSE Continue(<<>>, <<>>, 0)

\* pollStatus whose success branch also sets the timer for the next poll
pollStatusResume_PollsOn(status, att) ==
    IF status.kind = "throw" THEN Throw(status.message)
    ELSE IF status.status = "SUCCEEDED" /\ status.output # Undefined
    THEN Continue(<<CompletedLabel>>, <<status.output>>, 1)
    ELSE IF status.status = "FAILED"
    THEN Throw(IF status.error # <<>> THEN status.error ELSE PipelineFailedDefault)
    ELSE IF status.status = "RUNNING"
    THEN Continue(<<stageLabel(att)>>, <<>>, 1)
    ELSE Continue(<<>>, <<>>, 1)

\* pollStatus from the answer of checkStatus to its return or throw:
\* progress / result are <<>> (not set) or <<value>>, timers the setTimeout calls
pollStatusResume(status, att) ==
    IF status.kind = "throw" THEN Throw(status.message)
    ELSE IF status.status = "SUCCEEDED" /\ status.output # Undefined
    THEN Continue(<<CompletedLabel>>, <<status.output>>, 0)
    ELSE IF status.status = "FAILED"
    THEN Throw(IF status.error # <<>> THEN status.error ELSE PipelineFailedDefault)
    ELSE IF status.status = "RUNNING"
    THEN Continue(<<stageLabel(att)>>, <<>>, 1)
    ELSE Continue(<<>>, <<>>, 1)

----------------------------------------------------------------------------
(* SmartREADMEGeneratorService.waitForCompletion *)

\* a loop condition that still holds when exactly timeoutMs have elapsed
waitLoopTest_Inclusive(el) == el <= timeoutMs

\* the loop condition Date.now() - startTime < timeoutMs
waitLoopTest(el) == el < timeoutMs

Sleep == [kind |-> "sleep"]

\* one iteration of the loop from the answer of checkStatus on
waitResume(status) ==
    IF status.kind = "throw" THEN Throw(status.message)
    ELSE IF status.status = "SUCCEEDED" /\ status.output # Undefined
    THEN Return(status.output)
    ELSE IF status.status = "FAILED"
    THEN Throw(<<"Pipeline failed: ">> \o
               (IF status.error # <<>> THEN status.error ELSE <<"Unknown error">>))
    ELSE IF status.status = "TIMED_OUT"
    THEN Throw(PipelineTimedOutMsg)
    ELSE Sleep

----------------------------------------------------------------------------
(* PreviewPageContent: the three ways of fetching preview data *)

Failed == [kind |-> "failed"]

\* numbers that occur and their decimal numerals
Numerals == [n \in {0, 2, 3, 85, 95} |->
                CASE n = 0 -> "0" [] n = 2 -> "2" [] n = 3 -> "3"
                  [] n = 85 -> "85" [] n = 95 -> "95"]

\* String(v)
String(v) ==
    IF v.kind = "number" THEN Str(<<Numerals[v.num]>>) ELSE Str(<<v.kind>>)

\* parseFloat(s) of a string
parseFloat(s) ==
    IF \E n \in DOMAIN Numerals : s = Str(<<Numerals[n]>>)
    THEN Num(CHOOSE n \in DOMAIN Numerals : s = Str(<<Numerals[n]>>))
    ELSE NaN

\* s?.split(","): a string is kept as its parts and the commas between them
split(s) ==
    IF s = Null THEN Undefined
    ELSE IF s.str = <<>> THEN Arr(<<"">>)
    ELSE Arr(SelectSeq(s.str, LAMBDA c : c # ","))

\* what /api/mock-readme answers
MockData ==
    [content |-> Str(<<"# Mock README">>),
     metadata |->
        [repoName |-> Str(<<"mock-repo">>), repoUrl |-> Str(<<"https://github.com/mock/mock-repo">>),
         owner |-> Str(<<"mock">>), generatedAt |-> Str(<<"2025-01-01">>),
         projectType |-> Str(<<"Web Application">>), primaryLanguage |-> Str(<<"TypeScript">>),
         frameworks |-> Arr(<<"Next.js">>), confidence |-> Num(95),
         processingTime |-> Num(2)]]

\* the records /api/history/[id] may answer with: the three optional fields
\* are missing, zero / empty, or set
HistoryItems ==
    {[repositoryName |-> Str(<<"repo">>), githubUrl |-> Str(<<"https://github.com/o/repo">>),
      repositoryOwner |-> Str(<<"o">>), generatedAt |-> Str(<<"2025-06-30">>),
      projectType |-> Str(<<"Library">>), primaryLanguage |-> Str(<<"Go">>),
      readmeUrl |-> Str(<<"https://cdn/readme.md">>),
      frameworks |-> o[1], confidence |-> o[2], processingTime |-> o[3]] :
        o \in {<<Undefined, Undefined, Undefined>>,
               <<Arr(<<>>), Num(0), Num(0)>>,
               <<Arr(<<"React">>), Num(85), Num(3)>>}}

HistoryContent == Str(<<"# README of repo">>)
CloudFrontContent == Str(<<"# README from CloudFront">>)

Stats == [characters |-> 0, words |-> 0, lines |-> 0, headings |-> 0]

PreviewData(id, content, metadata) ==
    [id |-> id, content |-> content, metadata |-> metadata, stats |-> Stats]

\* fetchFromS3: cf is the CloudFront answer (Failed or the text), mock the
\* answer of /api/mock-readme (Failed or MockData)
fetchFromS3(id, sp, cf, mock) ==
    IF cf # Failed
    THEN Return(PreviewData(id, cf,
            [repoName |-> Or(sp.name, Str(<<"Unknown Repository">>)),
             repoUrl |-> Or(sp.repo, Str(<<>>)),
             owner |-> Or(sp.owner, Str(<<"Unknown">>)),
             generatedAt |-> Str(<<"now">>),
             projectType |-> Or(sp.type, Str(<<"Unknown">>)),
             primaryLanguage |-> Or(sp.lang, Str(<<"Unknown">>)),
             frameworks |-> Or(split(sp.frameworks), Arr(<<>>)),
             confidence |-> parseFloat(Or(sp.confidence, Str(<<"0">>))),
             processingTime |-> parseFloat(Or(sp.time, Str(<<"0">>)))]))
    ELSE IF mock = Failed THEN Throw(FetchFailedMsg)
    ELSE LET m == mock.metadata
         IN  Return(PreviewData(id, mock.content,
                [repoName |-> Or(sp.name, m.repoName),
                 repoUrl |-> Or(sp.repo, m.repoUrl),
                 owner |-> Or(sp.owner, m.owner),
                 generatedAt |-> m.generatedAt,
                 projectType |-> Or(sp.type, m.projectType),
                 primaryLanguage |-> Or(sp.lang, m.primaryLanguage),
                 frameworks |-> Or(split(sp.frameworks), m.frameworks),
                 confidence |-> parseFloat(Or(sp.confidence, String(m.confidence))),
                 processingTime |-> parseFloat(Or(sp.time, String(m.processingTime)))]))

\* the catch block of fetchFromHistory: everything from the mock endpoint
completeFallback(id, mock) ==
    IF mock = Failed THEN Throw(FetchFailedMsg)
    ELSE Return(PreviewData(id, mock.content, mock.metadata))

\* a fetchFromHistory whose outer catch block rethrows
fetchFromHistory_NoCatch(id, hist, content, mock, mockAgain) ==
    IF hist = Failed THEN Throw(<<"Failed to fetch from history">>)
    ELSE IF content # Failed
    THEN Return(PreviewData(id, content,
            [repoName |-> hist.repositoryName,
             repoUrl |-> hist.githubUrl,
             owner |-> hist.repositoryOwner,
             generatedAt |-> hist.generatedAt,
             projectType |-> hist.projectType,
             primaryLanguage |-> hist.primaryLanguage,
             frameworks |-> Or(hist.frameworks, Arr(<<>>)),
             confidence |-> Or(hist.confidence, Num(0)),
             processingTime |-> Or(hist.processingTime, Num(0))]))
    ELSE completeFallback(id, mock)

\* fetchFromHistory: hist is the history API's answer (Failed or a record),
\* content the answer for historyItem.readmeUrl, mock and mockAgain the
\* answers of the mock endpoint inside the try block and inside the catch block
fetchFromHistory(id, hist, content, mock, mockAgain) ==
    IF hist = Failed THEN completeFallback(id, mockAgain)
    ELSE IF content # Failed
    THEN Return(PreviewData(id, content,
            [repoName |-> hist.repositoryName,
             repoUrl |-> hist.githubUrl,
             owner |-> hist.repositoryOwner,
             generatedAt |-> hist.generatedAt,
             projectType |-> hist.projectType,
             primaryLanguage |-> hist.primaryLanguage,
             frameworks |-> Or(hist.frameworks, Arr(<<>>)),
             confidence |-> Or(hist.confidence, Num(0)),
             processingTime |-> Or(hist.processingTime, Num(0))]))
    ELSE IF mock = Failed THEN completeFallback(id, mockAgain)
    ELSE LET m == mock.metadata
         IN  Return(PreviewData(id, mock.content,
                [repoName |-> Or(hist.repositoryName, m.repoName),
                 repoUrl |-> Or(hist.githubUrl, m.repoUrl),
                 owner |-> Or(hist.repositoryOwner, m.owner),
                 generatedAt |-> Or(hist.generatedAt, m.generatedAt),
                 projectType |-> Or(hist.projectType, m.projectType),
                 primaryLanguage |-> Or(hist.primaryLanguage, m.primaryLanguage),
                 frameworks |-> Or(hist.frameworks, m.frameworks),
                 confidence |-> Or(hist.confidence, m.confidence),
                 processingTime |-> Or(hist.processingTime, m.processingTime)]))

\* s.includes(part), both sequences of characters
includes(s, part) ==
    \E i \in 1..(Len(s) - Len(part) + 1) : SubSeq(s, i, i + Len(part) - 1) = part

InvalidPreviewMsg == <<"Invalid preview URL - missing required parameters">>

fetchFromParams(id, mock) ==
    IF includes(id, <<"d", "e", "m", "o">>)
       \/ includes(id, <<"e", "x", "a", "m", "p", "l", "e">>)
    THEN completeFallback(id, mock)
    ELSE Throw(InvalidPreviewMsg)

----------------------------------------------------------------------------
(* The state after construction; the input is the text the user has typed *)

Components == {"READMEGenerator", "generateAndWait", "ReadmeGeneratorAdvanced"}

\* the closure and the exchanges of a handleGenerate call that has not been made
NoSecond ==
    [pc |-> "idle", post |-> NoPost, execution |-> NoExecution, attempts |-> 0,
     executionArn |-> <<>>, polls |-> {}, timers |-> 0, requests |-> 0,
     responses |-> 0]

\* the handle of the execution a further POST /generate starts
SecondArn == <<"arn:execution:2">>

\* the job tracker before anything has been done with it
TrackerIdle ==
    /\ post = NoPost
    /\ execution = NoExecution
    /\ isGenerating = FALSE
    /\ progress = <<>>
    /\ result = Undefined
    /\ error = <<>>
    /\ attempts = 0
    /\ executionArn = <<>>
    /\ rgPc = "idle"
    /\ polls = {}
    /\ timers = 0
    /\ onSuccess = <<>>
    /\ onError = <<>>
    /\ unhandled = {}
    /\ svPc = "idle"
    /\ elapsed = 0
    /\ outcome = NoOutcome
    /\ advPc = "idle"
    /\ toasts = <<>>
    /\ hookCalls = <<>>
    /\ posts = 0
    /\ startExecutions = 0
    /\ requests = 0
    /\ responses = 0
    /\ seen = {}
    /\ readFailed = FALSE
    /\ lastResponse = NoStatusAnswer
    /\ lastStatus = NoOutcome
    /\ finishedAfter = 0
    /\ raised = {}
    /\ second = NoSecond
    /\ mounted = TRUE

\* PreviewPageContent not rendered
PreviewIdle ==
    /\ previewId = <<>>
    /\ source = "none"
    /\ s3Key = Null
    /\ searchParams = NoSearchParams
    /\ previewData = Null
    /\ loading = TRUE
    /\ previewError = Null
    /\ runs = {}
    /\ runsStarted = 0
    /\ lastRun = NoRun

\* HistoryItemCard not rendered
CardIdle ==
    /\ item = NoItem
    /\ showPreview = FALSE
    /\ readmeContent = <<>>
    /\ loadingContent = FALSE
    /\ contentError = Null
    /\ fetches = {}
    /\ fetchesStarted = 0
    /\ lastFetch = <<>>

Init ==
    /\ component \in Components
    /\ githubUrl \in Urls
    /\ TrackerIdle
    /\ PreviewIdle
    /\ CardIdle

----------------------------------------------------------------------------
(* The servers and the execution *)

\* the generate route handles the POST
POST(sfn) ==
    /\ post.phase = "sent"
    /\ post' = POSTresponse(githubUrl, sfn)
    /\ startExecutions' = startExecutions + StartExecutionSends(githubUrl, sfn)
    /\ execution' = IF StartExecutionSends(githubUrl, sfn) > 0 /\ sfn = "ok"
                    THEN [NoExecution EXCEPT !.status = "RUNNING"]
                    ELSE execution
    /\ UNCHANGED <<pageVars, second, mounted, component, githubUrl, rgVars, svVars, advVars, posts,
                   pollHistory, finishedAfter, raised>>

\* the deployed endpoint handles the POST
DeployedGenerate ==
    /\ post.phase = "sent"
    /\ post' = ExpectedResponse(githubUrl)
    /\ execution' = IF githubRegexTest(githubUrl)
                    THEN [NoExecution EXCEPT !.status = "RUNNING"]
                    ELSE execution
    /\ UNCHANGED <<pageVars, second, mounted, component, githubUrl, rgVars, svVars, advVars, posts,
                   startExecutions, pollHistory, finishedAfter, raised>>

\* the workflow reaches a terminal state
ExecutionEnds(e) ==
    /\ execution.status = "RUNNING"
    /\ execution' = e
    /\ finishedAfter' = responses
    /\ UNCHANGED <<pageVars, second, mounted, component, githubUrl, post, rgVars, svVars, advVars, posts,
                   startExecutions, pollHistory, raised>>

\* the fetch of generateREADME may settle: rejected at any time, fulfilled
\* once the server has answered
StartSettles(net) ==
    \/ net = "error" /\ post.phase \in {"sent", "answered"}
    \/ net = "ok" /\ post.phase = "answered"

Observe(wire, st) ==
    /\ responses' = responses + 1
    /\ lastResponse' = wire
    /\ lastStatus' = st
    /\ seen' = IF st.kind = "return" THEN seen \cup {st.status} ELSE seen
    /\ readFailed' = (readFailed \/ st.kind = "throw")

----------------------------------------------------------------------------
(* READMEGenerator *)

\* catch (err) { setError; onError } finally { setIsGenerating(false); setProgress('') }
Caught(m) ==
    /\ error' = m
    /\ onError' = Append(onError, m)
    /\ isGenerating' = FALSE
    /\ progress' = <<>>
    /\ rgPc' = "returned"

handleGenerate ==
    /\ component = "READMEGenerator"
    /\ rgPc = "idle"
    /\ mounted
    /\ ~isGenerating /\ githubUrl # <<>>
    /\ IF ~validateGitHubUrl(githubUrl)
       THEN /\ error' = InvalidUrlMsg
            /\ rgPc' = "returned"
            /\ UNCHANGED <<isGenerating, result, progress, post, posts>>
       ELSE /\ isGenerating' = TRUE
            /\ error' = <<>>
            /\ result' = Undefined
            /\ progress' = StartingLabel
            /\ post' = SentPost
            /\ posts' = posts + 1
            /\ rgPc' = "awaitStart"
    /\ UNCHANGED <<pageVars, second, mounted, component, githubUrl, execution, attempts, executionArn, polls,
                   timers, onSuccess, onError, unhandled, svVars, advVars,
                   startExecutions, pollHistory, finishedAfter, raised>>

\* handleGenerate from the answer of generateREADME to the first await of pollStatus
handleGenerateStarted(net) ==
    /\ component = "READMEGenerator"
    /\ rgPc = "awaitStart"
    /\ StartSettles(net)
    /\ LET r == generateREADME(net, post)
           failure == IF r.kind = "throw" THEN <<r.message>>
                      ELSE IF ~r.value.success THEN <<r.value.message>>
                      ELSE IF ~pollStatusMayRequest(0) THEN <<GenerationTimeoutMsg>>
                      ELSE <<>>
       IN  /\ post' = [post EXCEPT !.phase = IF net = "error" THEN "failed" ELSE "settled"]
           /\ IF failure # <<>>
              THEN /\ Caught(failure[1])
                   /\ raised' = raised \cup {failure[1]}
                   /\ UNCHANGED <<attempts, executionArn, polls, requests>>
              ELSE /\ progress' = AnalysisLabel
                   /\ executionArn' = r.value.execution_arn
                   /\ attempts' = 1
                   /\ polls' = {[n |-> requests + 1, awaited |-> TRUE]}
                   /\ requests' = requests + 1
                   /\ rgPc' = "awaitPoll"
                   /\ UNCHANGED <<error, onError, isGenerating, raised>>
    /\ UNCHANGED <<pageVars, second, mounted, component, githubUrl, execution, result, timers, onSuccess,
                   unhandled, svVars, advVars, posts, startExecutions, responses,
                   seen, readFailed, lastResponse, lastStatus, finishedAfter>>

\* a pollStatus invocation from the answer of checkStatus on; the invocation
\* handleGenerate awaits hands its outcome to handleGenerate's catch / finally
pollStatusSettles(p, via, sfn, net) ==
    /\ component = "READMEGenerator"
    /\ p \in polls
    /\ LET wire == StatusWire(via, execution, sfn)
           st == checkStatus(net, wire)
           eff == pollStatusResume(st, attempts)
       IN  /\ polls' = polls \ {p}
           /\ Observe(IF net = "error" THEN NoStatusAnswer ELSE wire, st)
           /\ IF eff.kind = "throw"
              THEN /\ raised' = raised \cup {eff.message}
                   /\ IF p.awaited
                      THEN Caught(eff.message) /\ UNCHANGED unhandled
                      ELSE /\ unhandled' = unhandled \cup {eff.message}
                           /\ UNCHANGED <<error, onError, isGenerating, progress, rgPc>>
                   /\ UNCHANGED <<result, onSuccess, timers>>
              ELSE /\ result' = IF eff.result # <<>> THEN eff.result[1] ELSE result
                   /\ onSuccess' = onSuccess \o eff.result
                   /\ timers' = timers + eff.timers
                   /\ progress' = IF p.awaited THEN <<>>
                                  ELSE IF eff.progress # <<>> THEN eff.progress[1]
                                  ELSE progress
                   /\ isGenerating' = IF p.awaited THEN FALSE ELSE isGenerating
                   /\ rgPc' = IF p.awaited THEN "returned" ELSE rgPc
                   /\ UNCHANGED <<error, onError, unhandled, raised>>
    /\ UNCHANGED <<pageVars, second, mounted, component, githubUrl, post, execution, attempts, executionArn,
                   svVars, advVars, posts, startExecutions, requests, finishedAfter>>

\* a timer set by setTimeout(pollStatus, 5000) fires: pollStatus up to its await
pollStatusTimer ==
    /\ component = "READMEGenerator"
    /\ timers > 0
    /\ timers' = timers - 1
    /\ IF pollStatusMayRequest(attempts)
       THEN /\ attempts' = attempts + 1
            /\ polls' = polls \cup {[n |-> requests + 1, awaited |-> FALSE]}
            /\ requests' = requests + 1
            /\ UNCHANGED <<unhandled, raised>>
       ELSE /\ unhandled' = unhandled \cup {GenerationTimeoutMsg}
            /\ raised' = raised \cup {GenerationTimeoutMsg}
            /\ UNCHANGED <<attempts, polls, requests>>
    /\ UNCHANGED <<pageVars, second, mounted, component, githubUrl, post, execution, isGenerating, progress,
                   result, error, executionArn, rgPc, onSuccess, onError, svVars,
                   advVars, posts, startExecutions, responses, seen, readFailed,
                   lastResponse, lastStatus, finishedAfter>>

----------------------------------------------------------------------------
(* SmartREADMEGeneratorService.generateAndWait *)

Delays == {0, DelayMs}

generateAndWait ==
    /\ component = "generateAndWait"
    /\ svPc = "idle"
    /\ post' = SentPost
    /\ posts' = posts + 1
    /\ svPc' = "awaitStart"
    /\ UNCHANGED <<pageVars, second, mounted, component, githubUrl, execution, rgVars, elapsed, outcome,
                   advVars, startExecutions, pollHistory, finishedAfter, raised>>

\* generateAndWait from the answer of generateREADME to the first await of
\* waitForCompletion
generateAndWaitStarted(net) ==
    /\ component = "generateAndWait"
    /\ svPc = "awaitStart"
    /\ StartSettles(net)
    /\ LET r == generateREADME(net, post)
           failure == IF r.kind = "throw" THEN <<r.message>>
                      ELSE IF ~r.value.success
                      THEN <<(<<"Failed to start pipeline: ">> \o r.value.message)>>
                      ELSE IF ~waitLoopTest(0) THEN <<PollingTimeoutMsg>>
                      ELSE <<>>
       IN  /\ post' = [post EXCEPT !.phase = IF net = "error" THEN "failed" ELSE "settled"]
           /\ IF failure # <<>>
              THEN /\ outcome' = Throw(failure[1])
                   /\ raised' = raised \cup {failure[1]}
                   /\ svPc' = "done"
                   /\ UNCHANGED <<executionArn, requests>>
              ELSE /\ executionArn' = r.value.execution_arn
                   /\ requests' = requests + 1
                   /\ svPc' = "awaitStatus"
                   /\ UNCHANGED <<outcome, raised>>
    /\ elapsed' = 0
    /\ UNCHANGED <<pageVars, second, mounted, component, githubUrl, execution, isGenerating, progress, result,
                   error, attempts, rgPc, polls, timers, onSuccess, onError,
                   unhandled, advVars, posts, startExecutions, responses, seen,
                   readFailed, lastResponse, lastStatus, finishedAfter>>

\* one iteration of waitForCompletion from the answer of checkStatus on; the
\* request took d ms
waitForCompletionSettles(via, sfn, net, d) ==
    /\ component = "generateAndWait"
    /\ svPc = "awaitStatus"
    /\ LET wire == StatusWire(via, execution, sfn)
           st == checkStatus(net, wire)
           r == waitResume(st)
       IN  /\ Observe(IF net = "error" THEN NoStatusAnswer ELSE wire, st)
           /\ elapsed' = elapsed + d
           /\ IF r.kind = "sleep"
              THEN svPc' = "sleeping" /\ UNCHANGED <<outcome, raised>>
              ELSE /\ svPc' = "done"
                   /\ outcome' = r
                   /\ raised' = IF r.kind = "throw" THEN raised \cup {r.message}
                                ELSE raised
    /\ UNCHANGED <<pageVars, second, mounted, component, githubUrl, post, execution, rgVars, advVars, posts,
                   startExecutions, requests, finishedAfter>>

\* the timer of setTimeout(resolve, pollIntervalMs) fires, d ms late: the loop
\* condition and the next checkStatus
waitForCompletionTimer(d) ==
    /\ component = "generateAndWait"
    /\ svPc = "sleeping"
    /\ LET now == elapsed + pollIntervalMs + d
       IN  /\ elapsed' = now
           /\ IF waitLoopTest(now)
              THEN /\ svPc' = "awaitStatus"
                   /\ requests' = requests + 1
                   /\ UNCHANGED <<outcome, raised>>
              ELSE /\ svPc' = "done"
                   /\ outcome' = Throw(PollingTimeoutMsg)
                   /\ raised' = raised \cup {PollingTimeoutMsg}
                   /\ UNCHANGED requests
    /\ UNCHANGED <<pageVars, second, mounted, component, githubUrl, post, execution, rgVars, advVars, posts,
                   startExecutions, responses, seen, readFailed, lastResponse,
                   lastStatus, finishedAfter>>

----------------------------------------------------------------------------
(* ReadmeGeneratorAdvanced.handleSubmit *)

handleSubmit ==
    /\ component = "ReadmeGeneratorAdvanced"
    /\ advPc = "idle"
    /\ LET url == Trim(githubUrl)
       IN  IF url = <<>>
           THEN advPc' = "returned" /\ UNCHANGED <<toasts, hookCalls>>
           ELSE IF ~githubRegexTest(url)
           THEN /\ toasts' = Append(toasts, <<"Invalid GitHub URL">>)
                /\ advPc' = "returned"
                /\ UNCHANGED hookCalls
           ELSE /\ hookCalls' = Append(hookCalls, url)
                /\ advPc' = "awaitHook"
                /\ UNCHANGED toasts
    /\ UNCHANGED <<pageVars, second, mounted, component, githubUrl, post, execution, rgVars, svVars, posts,
                   startExecutions, pollHistory, finishedAfter, raised>>

----------------------------------------------------------------------------

Next ==
    \/ handleGenerate
    \/ \E net \in {"ok", "error"} : handleGenerateStarted(net)
    \/ \E p \in polls, via \in {"route", "direct"}, sfn \in {"ok", "throws"},
          net \in {"ok", "error"} : pollStatusSettles(p, via, sfn, net)
    \/ pollStatusTimer
    \/ generateAndWait
    \/ \E net \in {"ok", "error"} : generateAndWaitStarted(net)
    \/ \E via \in {"route", "direct"}, sfn \in {"ok", "throws"},
          net \in {"ok", "error"}, d \in Delays :
              waitForCompletionSettles(via, sfn, net, d)
    \/ \E d \in Delays : waitForCompletionTimer(d)
    \/ handleSubmit
    \/ \E sfn \in {"ok", "throws"} : POST(sfn)
    \/ DeployedGenerate
    \/ \E e \in Endings : ExecutionEnds(e)

Spec == Init /\ [][Next]_vars

\* The two pollers with a text the validator accepts.  Every timer that is set
\* fires and every fetch settles (fulfilled or rejected), so a step that can
\* be taken is taken.
InitPolling ==
    /\ Init
    /\ component \in {"READMEGenerator", "generateAndWait"}
    /\ githubUrl = GithubPrefix \o <<"a", "/", "a">>

NextPolling ==
    \/ handleGenerate
    \/ \E net \in {"ok", "error"} : handleGenerateStarted(net)
    \/ \E p \in polls, via \in {"route", "direct"}, sfn \in {"ok", "throws"},
          net \in {"ok", "error"} : pollStatusSettles(p, via, sfn, net)
    \/ pollStatusTimer
    \/ generateAndWait
    \/ \E net \in {"ok", "error"} : generateAndWaitStarted(net)
    \/ \E via \in {"route", "direct"}, sfn \in {"ok", "throws"},
          net \in {"ok", "error"}, d \in Delays :
              waitForCompletionSettles(via, sfn, net, d)
    \/ \E d \in Delays : waitForCompletionTimer(d)
    \/ \E sfn \in {"ok", "throws"} : POST(sfn)
    \/ \E e \in Endings : ExecutionEnds(e)

FairSpec == InitPolling /\ [][NextPolling]_vars /\ WF_vars(NextPolling)

----------------------------------------------------------------------------
(* READMEGenerator used further: the button is enabled again as soon as      *)
(* handleGenerate has returned (isGenerating is false), while the pollStatus *)
(* timers of that call are still running; the parent may stop rendering the  *)
(* component.                                                                *)

unchangedByFurtherUse ==
    UNCHANGED <<pageVars, component, githubUrl, post, execution, attempts,
                executionArn, rgPc, polls, timers, svVars, advVars, pollHistory,
                finishedAfter>>

\* the user clicks Generate again: handleGenerate up to await generateREADME
handleGenerateAgain ==
    /\ component = "READMEGenerator"
    /\ mounted
    /\ rgPc = "returned" /\ second.pc = "idle"
    /\ ~isGenerating /\ githubUrl # <<>>
    /\ IF ~validateGitHubUrl(githubUrl)
       THEN /\ error' = InvalidUrlMsg
            /\ second' = [second EXCEPT !.pc = "returned"]
            /\ UNCHANGED <<isGenerating, result, progress, posts>>
       ELSE /\ isGenerating' = TRUE
            /\ error' = <<>>
            /\ result' = Undefined
            /\ progress' = StartingLabel
            /\ second' = [second EXCEPT !.pc = "awaitStart", !.post = SentPost]
            /\ posts' = posts + 1
    /\ unchangedByFurtherUse
    /\ UNCHANGED <<mounted, onSuccess, onError, unhandled, startExecutions, raised>>

\* the generate route handles the further POST
POSTAgain(sfn) ==
    /\ second.post.phase = "sent"
    /\ LET answer == POSTresponse(githubUrl, sfn)
           started == StartExecutionSends(githubUrl, sfn) > 0 /\ sfn = "ok"
       IN  /\ second' =
                 [second EXCEPT
                    !.post = IF answer.ok
                             THEN [answer EXCEPT !.body.execution_arn = SecondArn]
                             ELSE answer,
                    !.execution = IF started
                                  THEN [NoExecution EXCEPT !.status = "RUNNING"]
                                  ELSE @]
           /\ startExecutions' = startExecutions + StartExecutionSends(githubUrl, sfn)
    /\ unchangedByFurtherUse
    /\ UNCHANGED <<mounted, isGenerating, progress, result, error, onSuccess,
                   onError, unhandled, posts, raised>>

\* the execution of the further call reaches a terminal state
ExecutionEndsAgain(e) ==
    /\ second.execution.status = "RUNNING"
    /\ second' = [second EXCEPT !.execution = e]
    /\ unchangedByFurtherUse
    /\ UNCHANGED <<mounted, isGenerating, progress, result, error, onSuccess,
                   onError, unhandled, posts, startExecutions, raised>>

\* the further call from the answer of generateREADME to its await of pollStatus
handleGenerateAgainStarted(net) ==
    /\ second.pc = "awaitStart"
    /\ \/ net = "error" /\ second.post.phase \in {"sent", "answered"}
       \/ net = "ok" /\ second.post.phase = "answered"
    /\ LET r == generateREADME(net, second.post)
           failure == IF r.kind = "throw" THEN <<r.message>>
                      ELSE IF ~r.value.success THEN <<r.value.message>>
                      ELSE IF ~pollStatusMayRequest(0) THEN <<GenerationTimeoutMsg>>
                      ELSE <<>>
           settled == [second.post EXCEPT
                         !.phase = IF net = "error" THEN "failed" ELSE "settled"]
       IN  IF failure # <<>>
           THEN /\ error' = failure[1]
                /\ onError' = Append(onError, failure[1])
                /\ isGenerating' = FALSE
                /\ progress' = <<>>
                /\ raised' = raised \cup {failure[1]}
                /\ second' = [second EXCEPT !.pc = "returned", !.post = settled]
           ELSE /\ progress' = AnalysisLabel
                /\ second' = [second EXCEPT
                                 !.pc = "awaitPoll", !.post = settled,
                                 !.executionArn = r.value.execution_arn,
                                 !.attempts = 1,
                                 !.polls = {[n |-> 1, awaited |-> TRUE]},
                                 !.requests = 1]
                /\ UNCHANGED <<error, onError, isGenerating, raised>>
    /\ unchangedByFurtherUse
    /\ UNCHANGED <<mounted, result, onSuccess, unhandled, posts, startExecutions>>

\* a pollStatus invocation of the further call from the answer of checkStatus on
pollStatusSettlesAgain(p, via, sfn, net) ==
    /\ p \in second.polls
    /\ LET st == checkStatus(net, StatusWire(via, second.execution, sfn))
           eff == pollStatusResume(st, second.attempts)
           answered == [second EXCEPT !.polls = @ \ {p}, !.responses = @ + 1]
       IN  IF eff.kind = "throw"
           THEN /\ raised' = raised \cup {eff.message}
                /\ IF p.awaited
                   THEN /\ error' = eff.message
                        /\ onError' = Append(onError, eff.message)
                        /\ isGenerating' = FALSE
                        /\ progress' = <<>>
                        /\ second' = [answered EXCEPT !.pc = "returned"]
                        /\ UNCHANGED unhandled
                   ELSE /\ unhandled' = unhandled \cup {eff.message}
                        /\ second' = answered
                        /\ UNCHANGED <<error, onError, isGenerating, progress>>
                /\ UNCHANGED <<result, onSuccess>>
           ELSE /\ result' = IF eff.result # <<>> THEN eff.result[1] ELSE result
                /\ onSuccess' = onSuccess \o eff.result
                /\ progress' = IF p.awaited THEN <<>>
                               ELSE IF eff.progress # <<>> THEN eff.progress[1]
                               ELSE progress
                /\ isGenerating' = IF p.awaited THEN FALSE ELSE isGenerating
                /\ second' = [answered EXCEPT
                                 !.timers = @ + eff.timers,
                                 !.pc = IF p.awaited THEN "returned" ELSE @]
                /\ UNCHANGED <<error, onError, unhandled, raised>>
    /\ unchangedByFurtherUse
    /\ UNCHANGED <<mounted, posts, startExecutions>>

\* a timer of the further call fires: pollStatus up to its await
pollStatusTimerAgain ==
    /\ second.timers > 0
    /\ IF pollStatusMayRequest(second.attempts)
       THEN /\ second' = [second EXCEPT
                             !.timers = @ - 1,
                             !.attempts = @ + 1,
                             !.polls = @ \cup {[n |-> second.requests + 1,
                                                awaited |-> FALSE]},
                             !.requests = @ + 1]
            /\ UNCHANGED <<unhandled, raised>>
       ELSE /\ second' = [second EXCEPT !.timers = @ - 1]
            /\ unhandled' = unhandled \cup {GenerationTimeoutMsg}
            /\ raised' = raised \cup {GenerationTimeoutMsg}
    /\ unchangedByFurtherUse
    /\ UNCHANGED <<mounted, isGenerating, progress, result, error, onSuccess,
                   onError, posts, startExecutions>>

\* the parent stops rendering the component: READMEGenerator registers no
\* cleanup, so its timers and requests stay as they are (what they set
\* afterwards is state of an instance that is no longer shown)
Unmount ==
    /\ component = "READMEGenerator"
    /\ mounted
    /\ mounted' = FALSE
    /\ unchangedByFurtherUse
    /\ UNCHANGED <<second, isGenerating, progress, result, error, onSuccess,
                   onError, unhandled, posts, startExecutions, raised>>

\* the texts of this use: one the validator accepts, one it rejects
FurtherUseUrls == {GithubPrefix \o <<"a", "/", "a">>, GithubPrefix \o <<"a">>}

\* how the executions of this use end
FirstEndings ==
    {e \in Endings : \/ e.status = "SUCCEEDED" /\ e.output = JSONstringify(FirstPayload)
                     \/ e.status = "FAILED" /\ e.error = <<"boom">>}
SecondEndings ==
    {e \in Endings : e.status = "SUCCEEDED" /\ e.output = JSONstringify(SecondPayload)}

InitFurtherUse ==
    /\ Init
    /\ component = "READMEGenerator"
    /\ githubUrl \in FurtherUseUrls

NextFurtherUse ==
    \/ handleGenerate
    \/ POST("ok")
    \/ handleGenerateStarted("ok")
    \/ \E p \in polls : pollStatusSettles(p, "direct", "ok", "ok")
    \/ pollStatusTimer
    \/ \E e \in FirstEndings : ExecutionEnds(e)
    \/ handleGenerateAgain
    \/ \E sfn \in {"ok", "throws"} : POSTAgain(sfn)
    \/ \E net \in {"ok", "error"} : handleGenerateAgainStarted(net)
    \/ \E p \in second.polls, net \in {"ok", "error"} :
          pollStatusSettlesAgain(p, "direct", "ok", net)
    \/ pollStatusTimerAgain
    \/ \E e \in SecondEndings : ExecutionEndsAgain(e)
    \/ Unmount

SpecFurtherUse == InitFurtherUse /\ [][NextFurtherUse]_vars

----------------------------------------------------------------------------
(* PreviewPageContent: the effect, fetchPreviewData and the parameters *)

MaxRuns == 2        \* fetchPreviewData runs in one behaviour

\* the pages visited: previewId, source and s3Key of the URL
Pages ==
    {[previewId |-> <<"d", "e", "m", "o", "1">>, source |-> "history", s3Key |-> Null],
     [previewId |-> <<"a", "b", "c">>, source |-> "share", s3Key |-> Null],
     [previewId |-> <<"e", "x", "a", "m", "p", "l", "e">>, source |-> "direct",
      s3Key |-> Str(<<"readmes/repo.md">>)],
     [previewId |-> <<"d", "e", "m", "o", "1">>, source |-> "direct", s3Key |-> Null]}
SearchParamsGiven ==
    {NoSearchParams,
     [NoSearchParams EXCEPT !.frameworks = Str(<<"React", ",", "Vue">>),
                            !.confidence = Str(<<"85">>), !.time = Str(<<"3">>)]}

\* the fetch function fetchPreviewData selects
Path(run) ==
    IF run.source = "direct" /\ ~Falsy(run.s3Key) THEN "S3"
    ELSE IF run.source = "history" THEN "history"
    ELSE "params"

\* the answers to the requests of one run; a request that is not sent has
\* NoOutcome as its answer
Answers == [hist : {NoOutcome, Failed} \cup HistoryItems,
            content : {NoOutcome, Failed, HistoryContent},
            mock : {NoOutcome, Failed, MockData},
            mockAgain : {NoOutcome, Failed, MockData},
            cf : {NoOutcome, Failed, CloudFrontContent}]

\* which requests a run sends, given the answers to those it sent before
Sends(run, a) ==
    LET demo == includes(run.previewId, <<"d", "e", "m", "o">>)
                \/ includes(run.previewId, <<"e", "x", "a", "m", "p", "l", "e">>)
        path == Path(run)
    IN  [cf |-> path = "S3",
         hist |-> path = "history",
         content |-> path = "history" /\ a.hist # Failed,
         mock |-> \/ path = "S3" /\ a.cf = Failed
                  \/ path = "history" /\ a.hist # Failed /\ a.content = Failed
                  \/ path = "params" /\ demo,
         mockAgain |-> /\ path = "history"
                       /\ \/ a.hist = Failed
                          \/ a.content = Failed /\ a.mock = Failed]

AnswersOf(run) ==
    {a \in Answers :
        LET sent == Sends(run, a)
        IN  /\ (a.cf = NoOutcome) <=> ~sent.cf
            /\ (a.hist = NoOutcome) <=> ~sent.hist
            /\ (a.content = NoOutcome) <=> ~sent.content
            /\ (a.mock = NoOutcome) <=> ~sent.mock
            /\ (a.mockAgain = NoOutcome) <=> ~sent.mockAgain}

\* the try block of fetchPreviewData
fetchPreviewDataTry(run, a) ==
    IF Path(run) = "S3" THEN fetchFromS3(run.previewId, run.searchParams, a.cf, a.mock)
    ELSE IF Path(run) = "history"
    THEN fetchFromHistory(run.previewId, a.hist, a.content, a.mock, a.mockAgain)
    ELSE fetchFromParams(run.previewId, a.mock)

unchangedByPreview ==
    UNCHANGED <<cardVars, second, mounted, component, githubUrl, post, execution,
                rgVars, svVars, advVars, posts, startExecutions, pollHistory,
                finishedAfter, raised>>

\* fetchPreviewData up to its first await
fetchPreviewDataStarts(id, src, key) ==
    /\ loading' = TRUE
    /\ previewError' = Null
    /\ runs' = runs \cup {[n |-> runsStarted + 1, previewId |-> id, source |-> src,
                            s3Key |-> key, searchParams |-> searchParams,
                            startedDuring |-> {r.n : r \in runs}]}
    /\ runsStarted' = runsStarted + 1
    /\ UNCHANGED <<previewData, lastRun, searchParams>>

\* the effect after the first render
useEffect ==
    /\ component = "PreviewPageContent"
    /\ runsStarted = 0
    /\ fetchPreviewDataStarts(previewId, source, s3Key)
    /\ UNCHANGED <<previewId, source, s3Key>>
    /\ unchangedByPreview

\* navigation changes previewId, source, s3Key or user: the effect runs again
ParamsChange(id, src, key) ==
    /\ component = "PreviewPageContent"
    /\ runsStarted \in 1..(MaxRuns - 1)
    /\ previewId' = id
    /\ source' = src
    /\ s3Key' = key
    /\ fetchPreviewDataStarts(id, src, key)
    /\ unchangedByPreview

\* a fetchPreviewData without its finally block
fetchPreviewDataEnds_NoFinally(run, a) ==
    /\ run \in runs
    /\ a \in AnswersOf(run)
    /\ LET r == fetchPreviewDataTry(run, a)
       IN  /\ IF r.kind = "return"
              THEN previewData' = r.value /\ UNCHANGED previewError
              ELSE previewError' = Str(r.message) /\ UNCHANGED previewData
           /\ lastRun' = [n |-> run.n, run |-> run, answers |-> a, result |-> r,
                          others |-> runs \ {run}]
    /\ runs' = runs \ {run}
    /\ UNCHANGED <<loading, previewId, source, s3Key, searchParams, runsStarted>>
    /\ unchangedByPreview

\* a run of fetchPreviewData from the answer of its fetch function to its end
fetchPreviewDataEnds(run, a) ==
    /\ run \in runs
    /\ a \in AnswersOf(run)
    /\ LET r == fetchPreviewDataTry(run, a)
       IN  /\ IF r.kind = "return"
              THEN previewData' = r.value /\ UNCHANGED previewError
              ELSE previewError' = Str(r.message) /\ UNCHANGED previewData
           /\ lastRun' = [n |-> run.n, run |-> run, answers |-> a, result |-> r,
                          others |-> runs \ {run}]
    /\ loading' = FALSE
    /\ runs' = runs \ {run}
    /\ UNCHANGED <<previewId, source, s3Key, searchParams, runsStarted>>
    /\ unchangedByPreview

InitPreview ==
    /\ component = "PreviewPageContent"
    /\ githubUrl = <<>>
    /\ TrackerIdle
    /\ CardIdle
    /\ \E page \in Pages :
          previewId = page.previewId /\ source = page.source /\ s3Key = page.s3Key
    /\ searchParams \in SearchParamsGiven
    /\ previewData = Null
    /\ loading = TRUE
    /\ previewError = Null
    /\ runs = {}
    /\ runsStarted = 0
    /\ lastRun = NoRun

NextPreview ==
    \/ useEffect
    \/ \E page \in Pages : ParamsChange(page.previewId, page.source, page.s3Key)
    \/ \E run \in runs : \E a \in AnswersOf(run) : fetchPreviewDataEnds(run, a)

SpecPreview == InitPreview /\ [][NextPreview]_vars

----------------------------------------------------------------------------
(* HistoryItemCard: the preview toggle and fetchReadmeContent *)

MaxFetches == 3     \* fetchReadmeContent requests of one card

\* the history items a card is rendered for
Items ==
    [status : {"completed", "processing"},
     readmeContent : {Undefined, Str(<<"# stored">>)},
     readmeS3Url : {Undefined, Str(<<"https://cdn/readme.md">>)},
     content : {Undefined, Str(<<"# content">>)}]

FetchedContent == <<"# fetched">>
ContentErrorMsg == <<"Failed to load README content - file may not be generated yet">>
NotAvailable == <<"# README Not Available">>

unchangedByCard ==
    UNCHANGED <<previewVars, item, second, mounted, component, githubUrl, post,
                execution, rgVars, svVars, advVars, posts, startExecutions,
                pollHistory, finishedAfter, raised>>

\* fetchReadmeContent up to its await, called for an item without readmeContent
fetchReadmeContentStarts ==
    IF ~Falsy(item.readmeS3Url) /\ item.status = "completed"
    THEN /\ loadingContent' = TRUE
         /\ contentError' = Null
         /\ fetchesStarted' = fetchesStarted + 1
         /\ fetches' = fetches \cup {fetchesStarted + 1}
         /\ UNCHANGED readmeContent
    ELSE /\ readmeContent' = IF ~Falsy(item.content) THEN item.content.str
                              ELSE readmeContent
         /\ UNCHANGED <<loadingContent, contentError, fetches, fetchesStarted>>

handlePreviewToggle ==
    /\ component = "HistoryItemCard"
    /\ fetchesStarted < MaxFetches
    /\ IF ~showPreview /\ item.status = "completed"
       THEN IF ~Falsy(item.readmeContent)
            THEN /\ readmeContent' = item.readmeContent.str
                 /\ loadingContent' = FALSE
                 /\ UNCHANGED <<contentError, fetches, fetchesStarted>>
            ELSE fetchReadmeContentStarts
       ELSE UNCHANGED <<readmeContent, loadingContent, contentError, fetches,
                        fetchesStarted>>
    /\ showPreview' = ~showPreview
    /\ UNCHANGED lastFetch
    /\ unchangedByCard

handleModalClose ==
    /\ component = "HistoryItemCard"
    /\ showPreview
    /\ showPreview' = FALSE
    /\ UNCHANGED <<readmeContent, loadingContent, contentError, fetches,
                   fetchesStarted, lastFetch>>
    /\ unchangedByCard

\* fetchReadmeContent from the answer of fetch to its end; answer is "ok",
\* "notOk" (response.ok false) or "rejected"
fetchReadmeContentEnds(f, answer) ==
    /\ component = "HistoryItemCard"
    /\ f \in fetches
    /\ IF answer = "ok"
       THEN readmeContent' = FetchedContent /\ UNCHANGED contentError
       ELSE contentError' = Str(ContentErrorMsg) /\ readmeContent' = NotAvailable
    /\ loadingContent' = FALSE
    /\ fetches' = fetches \ {f}
    /\ lastFetch' = Append(lastFetch, [n |-> f, ok |-> answer = "ok"])
    /\ UNCHANGED <<showPreview, fetchesStarted>>
    /\ unchangedByCard

InitCard ==
    /\ component = "HistoryItemCard"
    /\ githubUrl = <<>>
    /\ TrackerIdle
    /\ PreviewIdle
    /\ item \in Items
    /\ showPreview = FALSE
    /\ readmeContent = <<>>
    /\ loadingContent = FALSE
    /\ contentError = Null
    /\ fetches = {}
    /\ fetchesStarted = 0
    /\ lastFetch = <<>>

NextCard ==
    \/ handlePreviewToggle
    \/ handleModalClose
    \/ \E f \in fetches, answer \in {"ok", "notOk", "rejected"} :
          fetchReadmeContentEnds(f, answer)

SpecCard == InitCard /\ [][NextCard]_vars

----------------------------------------------------------------------------
(* Vocabulary of the properties *)


READMEGeneratorEnded ==
    component = "READMEGenerator" /\ rgPc = "returned" /\ polls = {} /\ timers = 0

waitForCompletionEnded == component = "generateAndWait" /\ svPc = "done"

\* the session obtained a handle and began to poll
PollingStarted == executionArn # <<>>

\* status requests awaiting their answer
InFlight ==
    IF component = "READMEGenerator" THEN Cardinality(polls)
    ELSE IF svPc = "awaitStatus" THEN 1 ELSE 0

\* the fetch of generateREADME was rejected or answered with a non-2xx status
StartFailed ==
    \/ post.phase = "failed"
    \/ post.phase = "settled" /\ ~post.ok

\* message msg contains the text m
Carries(msg, m) ==
    \E i \in 1..(Len(msg) - Len(m) + 1) : SubSeq(msg, i, i + Len(m) - 1) = m

\* the responses so far are finishedAfter RUNNING answers followed by answers
\* that report how the execution ended, none of them lost or unreadable
EndedAtResponse(k) ==
    /\ PollingStarted
    /\ execution.status \in TerminalStatuses
    /\ finishedAfter = k - 1
    /\ ~readFailed

----------------------------------------------------------------------------
(* Properties *)

\* C1 (as claimed): once a status response with a terminal status has been
\* observed, no further status request is issued for the handle.
C1_NoRequestAfterTerminal ==
    [][(seen \cap TerminalStatuses # {}) => requests' = requests]_vars

\* C2 (as claimed): when the first k-1 responses are RUNNING and the k-th
\* (k <= 24) is SUCCEEDED with a payload, a session that has ended has issued
\* exactly k status requests and has delivered that payload.
C2_Original ==
    \A k \in 1..maxAttempts :
        (EndedAtResponse(k) /\ execution.status = "SUCCEEDED"
                            /\ execution.output # Undefined) =>
            LET payload == execution.output.value
            IN  /\ READMEGeneratorEnded =>
                      requests = k /\ result = payload /\ onSuccess = <<payload>>
                /\ waitForCompletionEnded =>
                      requests = k /\ outcome = Return(payload)

\* C2 (amended): as C2, except that waitForCompletion delivers the payload
\* only if it reaches the k-th request before timeoutMs has elapsed; otherwise
\* it ends with 'Polling timeout reached' after fewer than k requests.
C2_SucceededAtK ==
    \A k \in 1..maxAttempts :
        (EndedAtResponse(k) /\ execution.status = "SUCCEEDED"
                            /\ execution.output # Undefined) =>
            LET payload == execution.output.value
            IN  /\ READMEGeneratorEnded =>
                      requests = k /\ result = payload /\ onSuccess = <<payload>>
                /\ waitForCompletionEnded =>
                      \/ requests = k /\ outcome = Return(payload)
                      \/ /\ requests < k
                         /\ outcome = Throw(PollingTimeoutMsg)
                         /\ elapsed >= timeoutMs

\* a READMEGenerator session whose third response is the first one to report
\* SUCCEEDED has delivered the payload
C2_Witness ==
    /\ READMEGeneratorEnded
    /\ EndedAtResponse(3)
    /\ requests = 3
    /\ Len(onSuccess) = 1
    /\ result = onSuccess[1]
    /\ JSONstringify(result) = execution.output

\* C3: when every status response is RUNNING, READMEGenerator.pollStatus
\* throws the polling-timeout error after exactly maxAttempts status requests;
\* there is never a request beyond maxAttempts.
C3_TimeoutAfterMaxAttempts ==
    component = "READMEGenerator" =>
        /\ requests <= maxAttempts
        /\ GenerationTimeoutMsg \in raised => requests = maxAttempts
        /\ (READMEGeneratorEnded /\ PollingStarted /\ execution.status = "RUNNING"
                                 /\ ~readFailed) =>
              requests = maxAttempts /\ GenerationTimeoutMsg \in raised

\* 24 RUNNING responses, then the timeout error
C3_Witness ==
    /\ READMEGeneratorEnded
    /\ seen = {"RUNNING"}
    /\ responses = maxAttempts
    /\ ~readFailed
    /\ GenerationTimeoutMsg \in raised

\* C4 (as claimed): when the k-th response is FAILED or ABORTED with remote
\* error m, the session ends after exactly k requests with an error that
\* carries m and is delivered to the caller.
C4_FailedOrAbortedAtK ==
    \A k \in 1..maxAttempts :
        (EndedAtResponse(k) /\ execution.status \in {"FAILED", "ABORTED"}
                            /\ execution.error # <<>> /\ responses >= k) =>
            /\ requests = k
            /\ component = "READMEGenerator" =>
                  /\ READMEGeneratorEnded
                  /\ Carries(error, execution.error)
                  /\ \E i \in DOMAIN onError : Carries(onError[i], execution.error)
            /\ component = "generateAndWait" =>
                  /\ waitForCompletionEnded
                  /\ outcome.kind = "throw"
                  /\ Carries(outcome.message, execution.error)

\* C5 (as claimed): a session that observed the remote TIMED_OUT ends with an
\* error other than the one that reports the exhausted local budget.
C5_TimeoutsDistinguishable ==
    /\ (READMEGeneratorEnded /\ "TIMED_OUT" \in seen) =>
          raised # {} /\ GenerationTimeoutMsg \notin raised
    /\ (waitForCompletionEnded /\ "TIMED_OUT" \in seen) =>
          outcome.kind = "throw" /\ outcome # Throw(PollingTimeoutMsg)

\* C6 (as claimed): every error raised in a READMEGenerator session is put in
\* the error state and handed to onError; none is left unhandled.
C6_EveryErrorReachesCaller ==
    component = "READMEGenerator" =>
        /\ unhandled = {}
        /\ \A m \in raised : \E i \in DOMAIN onError : onError[i] = m

\* C7 (as claimed): for an input that does not match the pattern no entry
\* point sends a request, and the submission fails with an error.
C7_InvalidInputSendsNothing ==
    ~githubRegexTest(githubUrl) =>
        /\ posts = 0
        /\ hookCalls = <<>>
        /\ rgPc # "idle" => error = InvalidUrlMsg
        /\ svPc = "done" => outcome.kind = "throw"

\* C8: for an input that matches the pattern, a submission sends exactly one
\* POST /generate, and the generate route that answers it has sent exactly one
\* StartExecutionCommand.
C8_ExactlyOneStartRequest ==
    (component \in {"READMEGenerator", "generateAndWait"}
        /\ githubRegexTest(githubUrl)) =>
        /\ posts <= 1 /\ startExecutions <= 1
        /\ (rgPc # "idle" \/ svPc # "idle") => posts = 1
        /\ post.status \in {<<"200">>, <<"500">>} => startExecutions = 1
        /\ execution.status # "NONE" /\ post.status = <<"200">> => startExecutions = 1

\* a matching input, one POST, one StartExecutionCommand, a running execution
C8_Witness ==
    /\ githubRegexTest(githubUrl)
    /\ posts = 1
    /\ startExecutions = 1
    /\ post.status = <<"200">>
    /\ execution.status = "RUNNING"

\* C9: when the start request fails, the submission fails with an error, no
\* handle is kept, the POST is not repeated and no status request is issued.
C9_FailedStart ==
    StartFailed =>
        /\ posts = 1
        /\ executionArn = <<>>
        /\ requests = 0 /\ InFlight = 0 /\ timers = 0
        /\ component = "READMEGenerator" =>
              /\ rgPc = "returned"
              /\ error # <<>>
              /\ onError = <<error>>
              /\ result = Undefined
        /\ component = "generateAndWait" =>
              /\ svPc = "done"
              /\ outcome.kind = "throw"
              /\ outcome.message # <<>>

\* the generate route answered 500 and READMEGenerator reported the failure
C9_Witness ==
    /\ component = "READMEGenerator"
    /\ StartFailed
    /\ post.status = <<"500">>
    /\ startExecutions = 1
    /\ error = <<"API request failed: ", "500">>

\* C10: at most one status request is in flight; a request is issued only
\* after every earlier one has been answered, and no timer is pending while a
\* request is in flight.
C10_OneRequestInFlight ==
    /\ InFlight <= 1
    /\ requests - responses = InFlight
    /\ component = "READMEGenerator" =>
          /\ Cardinality(polls) + timers <= 1
          /\ \A p \in polls : p.n = responses + 1

\* a later request of a session in flight
C10_Witness ==
    /\ InFlight = 1
    /\ requests = 3
    /\ responses = 2

\* a status request that failed in transit or was answered with a non-2xx status
TransientPollFailure ==
    /\ lastStatus.kind = "throw"
    /\ \/ lastStatus.message = FetchFailedMsg
       \/ Carries(lastStatus.message, <<"Status check failed: ">>)

\* C11 (as claimed): a status poll that fails transiently does not end the
\* session: no error is raised for it and the next poll is scheduled.
C11_TransientPollFailureContinues ==
    [][(responses' = responses + 1 /\ TransientPollFailure') =>
          /\ raised' = raised
          /\ component = "READMEGenerator" => timers' = timers + 1
          /\ component = "generateAndWait" => svPc' = "sleeping"]_vars

\* the start request was answered with the documented success body
DocumentedStartAnswer ==
    /\ post.phase = "settled"
    /\ post.ok
    /\ post.body.execution_arn = TheArn

\* C12 (as claimed): when the start request is answered with the documented
\* success body ({execution_arn, status: "RUNNING"}), the session holds the
\* handle of that body and has begun to poll; no error is raised for the start.
C12_DocumentedAnswerStartsPolling ==
    DocumentedStartAnswer =>
        /\ executionArn = post.body.execution_arn
        /\ requests >= 1
        /\ component = "READMEGenerator" => onError = <<>> \/ responses >= 1
        /\ component = "generateAndWait" => outcome.kind # "throw" \/ responses >= 1

\* C13: a status request is issued only after the start request has succeeded
\* (2xx answer, execution started) and the poller uses the handle of that
\* answer; a result is delivered only after a SUCCEEDED status response.
C13_SubmissionPollingDelivery ==
    /\ requests >= 1 =>
          /\ post.phase = "settled"
          /\ post.ok
          /\ execution # NoExecution
          /\ executionArn # <<>>
          /\ executionArn = post.body.execution_arn
    /\ (onSuccess # <<>> \/ result # Undefined \/ outcome.kind = "return") =>
          /\ requests >= 1
          /\ "SUCCEEDED" \in seen

\* a result delivered by the second status response
C13_Witness ==
    /\ component = "generateAndWait"
    /\ outcome.kind = "return"
    /\ requests = 2
    /\ responses = 2

\* C14: READMEGenerator delivers a result at most once in a session
\* (setResult / onSuccess), and never in a session in which onError is invoked.
C14_ResultAtMostOnce ==
    component = "READMEGenerator" =>
        /\ Len(onSuccess) <= 1
        /\ ~(onSuccess # <<>> /\ onError # <<>>)
        /\ onSuccess # <<>> => result = onSuccess[1]

\* a result delivered by the third status response, the session at rest
C14_Witness ==
    /\ READMEGeneratorEnded
    /\ Len(onSuccess) = 1
    /\ responses = 3

\* C15 (as claimed): polling sessions that run concurrently share no mutable
\* state: while a second session of the component exists, a step of the first
\* session (a status request or its answer) changes neither the closure of the
\* second nor what the component shows for it.
C15_SessionsShareNoState ==
    [][(second.pc # "idle" /\ (requests' # requests \/ responses' # responses)) =>
          /\ second' = second
          /\ result' = result
          /\ error' = error
          /\ isGenerating' = isGenerating
          /\ progress' = progress]_vars

\* C20 (as claimed): once the caller has dismissed the session, no further
\* status request is issued for its handle.
C20_NoRequestAfterCancel ==
    [][~mounted => requests' = requests /\ second.requests' = second.requests]_vars

\* the poller has stopped with an outcome: a result or an error
PollerStopped ==
    \/ /\ READMEGeneratorEnded
       /\ onSuccess # <<>> \/ raised # {}
    \/ /\ waitForCompletionEnded
       /\ outcome.kind \in {"return", "throw"}

\* C16: every polling session terminates, whatever the status responses are
\* (statuses outside the known set and SUCCEEDED without a payload included):
\* it never issues more than maxAttempts = 24 status requests, and once it has
\* begun to poll it eventually stops with a result or an error.
C16_PollingTerminates ==
    /\ [](requests <= maxAttempts)
    /\ PollingStarted ~> PollerStopped

\* the budget used up on answers the poller does not know
C16_Witness ==
    /\ PollerStopped
    /\ seen = {"RUNNING", "PENDING_REDRIVE"}
    /\ requests = maxAttempts

\* waitForCompletion has ended with 'Polling timeout reached' and every status
\* response was RUNNING
TimedOutOnRunning ==
    /\ waitForCompletionEnded
    /\ outcome = Throw(PollingTimeoutMsg)
    /\ seen = {"RUNNING"}
    /\ ~readFailed

\* C17 (as claimed): with the defaults the elapsed-time loop of
\* waitForCompletion is a 24-attempt budget: when every response is RUNNING it
\* fails after exactly 24 status requests, whatever the latency of the
\* requests, and it never issues more than 24.
C17_Original ==
    /\ component = "generateAndWait" => requests <= 24
    /\ TimedOutOnRunning => requests = 24

\* C17 (amended): waitForCompletion never issues more than 24 status requests;
\* when every response is RUNNING it fails once timeoutMs have elapsed, after a
\* number of requests that is 24 if the requests took no time and no timer was
\* late, and can be smaller otherwise (each request accounts for at least
\* pollIntervalMs and at most pollIntervalMs + 2 * DelayMs of the elapsed time).
C17_ElapsedTimeBudget ==
    /\ component = "generateAndWait" => requests <= 24
    /\ TimedOutOnRunning =>
          /\ elapsed >= timeoutMs
          /\ requests >= 1
          /\ requests * pollIntervalMs <= elapsed
          /\ elapsed - pollIntervalMs - 2 * DelayMs < timeoutMs
          /\ elapsed <= requests * (pollIntervalMs + 2 * DelayMs)
          /\ (elapsed = requests * pollIntervalMs) => (requests = 24)

\* the budget of 24 requests used up by requests without latency
C17_Witness ==
    /\ TimedOutOnRunning
    /\ requests = 24
    /\ elapsed = timeoutMs

\* the execution has changed since the last status response
ChangedSinceLastRead == execution.status # "RUNNING" /\ finishedAfter = responses

\* C18: status reads are query-only and idempotent: answering a status request
\* changes neither the execution nor the start exchange, and two consecutive
\* checkStatus calls that return, with the execution unchanged between them,
\* return equal ExecutionStatus values.
C18_StatusReadsIdempotent ==
    [][(responses' = responses + 1) =>
          /\ execution' = execution
          /\ finishedAfter' = finishedAfter
          /\ post' = post
          /\ posts' = posts
          /\ startExecutions' = startExecutions
          /\ (/\ responses >= 1
              /\ ~ChangedSinceLastRead
              /\ lastStatus.kind = "return"
              /\ lastStatus'.kind = "return") => lastStatus' = lastStatus]_vars

\* two reads of an execution that had ended before the first of them
C18_Witness ==
    /\ responses = 2
    /\ finishedAfter = 0
    /\ execution.status = "ABORTED"
    /\ lastStatus = ExecutionStatus("ABORTED", Undefined, <<"boom">>)

\* C19 (as claimed): for a 200 status response whose output is a structured
\* payload object, as the status route produces it by parsing the execution's
\* output, checkStatus returns an ExecutionStatus with that payload unchanged.
C19_OutputRoundTrip ==
    (lastResponse.ok /\ lastResponse.output \in Payloads) =>
        lastStatus = ExecutionStatus(lastResponse.status, lastResponse.output,
                                     lastResponse.error)

\* the stage of attempt n as the mapping is documented
StageOfAttempt(n) ==
    IF n \in 1..2 THEN StageA
    ELSE IF n \in 3..5 THEN StageB
    ELSE IF n \in 6..8 THEN StageC
    ELSE StageD

\* C21: for a RUNNING response on attempt n, pollStatus sets the progress label
\* to the first stage for n in 1..2, the second for 3..5, the third for 6..8
\* and the fourth from 9 on (the label of a poll that handleGenerate awaits is
\* cleared by its finally block at once); whatever the label, exactly one
\* timer is set for the next poll.
C21_StagedProgressLabel ==
    [][(/\ component = "READMEGenerator"
        /\ responses' = responses + 1
        /\ lastStatus'.kind = "return"
        /\ lastStatus'.status = "RUNNING") =>
          /\ pollStatusResume(lastStatus', attempts).progress = <<StageOfAttempt(attempts)>>
          /\ \A p \in polls \ polls' :
                progress' = IF p.awaited THEN <<>> ELSE StageOfAttempt(p.n)
          /\ attempts = responses'
          /\ timers' = timers + 1]_vars

\* the fourth stage shown for the ninth attempt, the next poll scheduled
C21_Witness ==
    /\ component = "READMEGenerator"
    /\ attempts = 9
    /\ responses = 9
    /\ progress = StageD
    /\ timers = 1

\* a field that is missing replaced by its default
Defaulted(v, default) == IF v \in {Undefined, Null} THEN default ELSE v

\* the last run built its metadata from a history record / from the URL
BuiltFromHistoryRecord ==
    /\ lastRun.n > 0
    /\ Path(lastRun.run) = "history"
    /\ lastRun.result.kind = "return"
    /\ lastRun.answers.hist \in HistoryItems
    /\ lastRun.answers.content # Failed \/ lastRun.answers.mock # Failed

BuiltFromSearchParams ==
    /\ lastRun.n > 0
    /\ Path(lastRun.run) = "S3"
    /\ lastRun.result.kind = "return"

\* C22 (as claimed): on every path of the preview page that builds metadata
\* from a record, a missing confidence, frameworks or processing time becomes
\* 0, the empty list and 0, and a value that is present is passed on unchanged.
C22_MissingFieldsDefaulted ==
    /\ BuiltFromHistoryRecord =>
          LET record == lastRun.answers.hist
              md == lastRun.result.value.metadata
          IN  /\ md.frameworks = Defaulted(record.frameworks, Arr(<<>>))
              /\ md.confidence = Defaulted(record.confidence, Num(0))
              /\ md.processingTime = Defaulted(record.processingTime, Num(0))
    /\ BuiltFromSearchParams =>
          LET sp == lastRun.run.searchParams
              md == lastRun.result.value.metadata
          IN  /\ md.frameworks = Defaulted(split(sp.frameworks), Arr(<<>>))
              /\ md.confidence = IF sp.confidence = Null THEN Num(0)
                                 ELSE parseFloat(sp.confidence)
              /\ md.processingTime = IF sp.time = Null THEN Num(0)
                                     ELSE parseFloat(sp.time)

\* C23 (as claimed): a payload without the content-location reference
\* (s3_location) is never delivered as a successful result: not by setResult
\* and onSuccess of READMEGenerator, not as return value of generateAndWait.
C23_MalformedResultRejected ==
    /\ result # Undefined => result.s3_location # Undefined
    /\ \A i \in 1..Len(onSuccess) : onSuccess[i].s3_location # Undefined
    /\ outcome.kind = "return" => outcome.value.s3_location # Undefined

\* the segments of a path: String.prototype.split('/')
RECURSIVE SegmentsOf(_)
SegmentsOf(s) ==
    IF \A i \in 1..Len(s) : s[i] # "/" THEN <<s>>
    ELSE LET i == CHOOSE k \in 1..Len(s) :
                      s[k] = "/" /\ \A j \in 1..(k - 1) : s[j] # "/"
         IN  <<SubSeq(s, 1, i - 1)>> \o SegmentsOf(SubSeq(s, i + 1, Len(s)))

\* 'https://github.com/' owner '/' repo and an optional single '/', owner and
\* repo non-empty and without a slash
OwnerRepoUrl(url) ==
    /\ Len(url) >= Len(GithubPrefix)
    /\ SubSeq(url, 1, Len(GithubPrefix)) = GithubPrefix
    /\ LET segs == SegmentsOf(SubSeq(url, Len(GithubPrefix) + 1, Len(url)))
       IN  /\ Len(segs) = 2 \/ (Len(segs) = 3 /\ segs[3] = <<>>)
           /\ segs[1] # <<>> /\ segs[2] # <<>>

\* owner and repo are made of letters, digits, '_', '-' and '.'
NameSegments(url) ==
    LET segs == SegmentsOf(SubSeq(url, Len(GithubPrefix) + 1, Len(url)))
    IN  \A k \in 1..2 : \A j \in 1..Len(segs[k]) : segs[k][j] \in WordChars

\* the decisions the three copies of the validator have taken in this state
READMEGeneratorDecided == component = "READMEGenerator" /\ rgPc # "idle"
READMEGeneratorAccepted == posts > 0
AdvancedDecided == component = "ReadmeGeneratorAdvanced" /\ advPc # "idle"
AdvancedAccepted == hookCalls # <<>>
RouteDecided == component = "generateAndWait" /\ post.phase \in {"answered", "settled"}
RouteAccepted == post.status # <<"400">>

\* C24 (as claimed): each copy of the validator accepts the typed string
\* exactly when it is the prefix, a non-empty slash-free owner, '/', a
\* non-empty slash-free repo and an optional '/', so the three copies decide
\* identically on every input.
C24_Original ==
    /\ READMEGeneratorDecided => (READMEGeneratorAccepted <=> OwnerRepoUrl(githubUrl))
    /\ AdvancedDecided => (AdvancedAccepted <=> OwnerRepoUrl(githubUrl))
    /\ RouteDecided => (RouteAccepted <=> OwnerRepoUrl(githubUrl))

\* C24 (amended): a copy accepts exactly the strings of that form whose owner
\* and repo consist of letters, digits, '_', '-' and '.'; READMEGenerator and
\* the generate route decide on the string as given, ReadmeGeneratorAdvanced
\* on the trimmed string, which is also the string it submits.
C24_ValidatorPattern ==
    LET Accepts(url) == OwnerRepoUrl(url) /\ NameSegments(url)
    IN  /\ READMEGeneratorDecided => (READMEGeneratorAccepted <=> Accepts(githubUrl))
        /\ AdvancedDecided =>
               /\ AdvancedAccepted <=> Accepts(Trim(githubUrl))
               /\ AdvancedAccepted => hookCalls = <<Trim(githubUrl)>>
        /\ RouteDecided => (RouteAccepted <=> Accepts(githubUrl))

\* the route has rejected a string whose owner and repo are non-empty and
\* slash-free
C24_Witness ==
    /\ RouteDecided /\ ~RouteAccepted
    /\ OwnerRepoUrl(githubUrl)

C26_BusyMatchesSession ==
    component = "READMEGenerator" =>
        /\ (polls # {} \/ timers > 0) => isGenerating /\ progress # <<>>
        /\ READMEGeneratorEnded => ~isGenerating /\ progress = <<>>

\* C27 (as claimed): in HistoryItemCard loadingContent is true exactly while
\* a fetchReadmeContent request is in flight, and once no request is in flight
\* contentError is non-null exactly when the most recently started fetch
\* failed.
C27_LoadingAndErrorFollowFetches ==
    component = "HistoryItemCard" =>
        /\ loadingContent <=> fetches # {}
        /\ fetches = {} /\ fetchesStarted > 0 =>
               (contentError # Null <=>
                    \E i \in 1..Len(lastFetch) :
                        lastFetch[i].n = fetchesStarted /\ ~lastFetch[i].ok)

\* a run that no other run of fetchPreviewData overlaps: none was in flight
\* when it started and none has started since
RanAlone(run) == run.startedDuring = {} /\ run.n = runsStarted

\* the last run has just ended and ran alone
EndedAlone ==
    /\ component = "PreviewPageContent"
    /\ runs = {} /\ lastRun.n > 0
    /\ RanAlone(lastRun.run)

\* C28: one run of fetchPreviewData keeps loading true while it runs and sets
\* it to false when it ends; then error is null exactly when the fetch
\* succeeded, and previewData is what the path selected by source returned
\* (direct with s3Key: fetchFromS3, history: fetchFromHistory, otherwise
\* fetchFromParams).
C28_OneRunOfFetchPreviewData ==
    /\ \A run \in runs : RanAlone(run) => loading /\ previewError = Null
    /\ EndedAlone =>
          LET run == lastRun.run
              a == lastRun.answers
              fetched ==
                  IF run.source = "direct" /\ run.s3Key # Null
                  THEN fetchFromS3(run.previewId, run.searchParams, a.cf, a.mock)
                  ELSE IF run.source = "history"
                  THEN fetchFromHistory(run.previewId, a.hist, a.content, a.mock,
                                        a.mockAgain)
                  ELSE fetchFromParams(run.previewId, a.mock)
          IN  /\ ~loading
              /\ previewError = Null <=> fetched.kind = "return"
              /\ fetched.kind = "return" => previewData = fetched.value
              /\ fetched.kind = "throw" => previewError = Str(fetched.message)

\* a second run, started after the first had ended, has succeeded
C28_Witness ==
    /\ EndedAlone /\ lastRun.n = 2
    /\ ~loading /\ previewError = Null
    /\ previewData = lastRun.result.value

\* C29 (as claimed): when the parameters change while an earlier
\* fetchPreviewData is in flight, the earlier run, ending after the run for the
\* latest parameters, leaves the displayed data and error as that run set them.
C29_LatestParametersWin ==
    [][\A run \in runs :
          /\ component = "PreviewPageContent"
          /\ run.n < runsStarted
          /\ runs = {run} /\ runs' = {}
          => previewData' = previewData /\ previewError' = previewError]_vars

\* the mock endpoint answered every request a run sent to it
MockResponds(a) == a.mock # Failed /\ a.mockAgain # Failed

\* C30: with source = history a run of fetchPreviewData whose requests to
\* /api/mock-readme are answered returns preview data, whatever the history
\* API and the content fetch do, and the page then shows no error; a run ends
\* in an error only in fetchFromParams with an id containing neither 'demo'
\* nor 'example', or when a request to the mock endpoint failed.
C30_HistoryNeverEndsInError ==
    component = "PreviewPageContent" /\ lastRun.n > 0 =>
        LET run == lastRun.run
            a == lastRun.answers
        IN  /\ run.source = "history" /\ MockResponds(a) =>
                   /\ lastRun.result.kind = "return"
                   /\ EndedAlone => previewError = Null /\ previewData # Null
            /\ lastRun.result.kind = "throw" =>
                   \/ /\ ~(run.source = "direct" /\ run.s3Key # Null)
                      /\ run.source # "history"
                      /\ ~includes(run.previewId, <<"d", "e", "m", "o">>)
                      /\ ~includes(run.previewId, <<"e", "x", "a", "m", "p", "l", "e">>)
                      /\ lastRun.result.message = InvalidPreviewMsg
                   \/ ~MockResponds(a)

\* a history run ended with preview data although the history API failed
C30_Witness ==
    /\ EndedAlone
    /\ lastRun.run.source = "history"
    /\ lastRun.answers.hist = Failed /\ lastRun.answers.mockAgain = MockData
    /\ previewError = Null /\ previewData # Null

====
